---- MODULE Spec2Model ----
(***************************************************************************)
(* Asynchronous job execution engine of the statistics web server:         *)
(* submission endpoints (app/routes.py), the job registry (app/shared.py), *)
(* the job queue and the worker pool (app/task_runner.py), the file-backed *)
(* result store and the analytics engine (app/data_ingestor.py).           *)
(*                                                                         *)
(* A job id "job_id_<n>" is modelled by the number n.  Every action is one *)
(* step of one thread between two accesses to shared state.                *)
(***************************************************************************)
EXTENDS Integers, Sequences, FiniteSets, TLC

(* ----------------------------- bounds --------------------------------- *)

\* number of worker threads (TP_NUM_OF_THREADS)
NumWorkers == 2

\* number of HTTP request threads issuing a POST submission, one each
NumClients == 2

(* --------------------- analytics engine (dataset) --------------------- *)

\* request parameter that is absent from the JSON body (dict.get -> None)
None == "None"

\* rows of the CSV file: Question, LocationDesc, the two stratification
\* columns and Data_Value (values chosen so that every mean is exact)
Dataset ==
  { [Question |-> "Q1", LocationDesc |-> "S1", StratificationCategory1 |-> "Age",
     Stratification1 |-> "18-24", Data_Value |-> 2],
    [Question |-> "Q1", LocationDesc |-> "S1", StratificationCategory1 |-> "Age",
     Stratification1 |-> "25-34", Data_Value |-> 4],
    [Question |-> "Q1", LocationDesc |-> "S2", StratificationCategory1 |-> "Age",
     Stratification1 |-> "18-24", Data_Value |-> 6] }

\* questions for which a lower value is the better one
questions_best_is_min == {"Q1"}

\* a dict with no key
EmptyDict == <<>>

\* outcome of an engine call: a returned dict, or a raised exception
Returned(d) == [exc |-> "none", value |-> d]
Raised(e) == [exc |-> e, value |-> EmptyDict]

RECURSIVE SumValues(_)
SumValues(rows) ==
  IF rows = {} THEN 0
  ELSE LET r == CHOOSE x \in rows : TRUE
       IN  r.Data_Value + SumValues(rows \ {r})

\* pandas Series.mean() of the Data_Value column of a non-empty frame
Mean(rows) == SumValues(rows) \div Cardinality(rows)

FilterQuestion(question) == { r \in Dataset : r.Question = question }

FilterQuestionState(question, state_name) ==
  { r \in Dataset : r.Question = question /\ r.LocationDesc = state_name }

calculate_state_means_and_sort(question) ==
  LET filtered_data == FilterQuestion(question)
      states == { r.LocationDesc : r \in filtered_data }
  IN  IF filtered_data = {} THEN EmptyDict
      ELSE [s \in states |-> Mean({ r \in filtered_data : r.LocationDesc = s })]

calculate_mean_for_state(question, state_name) ==
  LET filtered_data == FilterQuestionState(question, state_name)
  IN  IF filtered_data = {} THEN EmptyDict
      ELSE (state_name :> Mean(filtered_data))

\* the first n keys of d in the order of sorted(d.items(), key=value, reverse)
RECURSIVE FirstSorted(_, _, _)
FirstSorted(d, n, reverse) ==
  IF n = 0 \/ DOMAIN d = {} THEN {}
  ELSE LET k == CHOOSE x \in DOMAIN d :
                  \A y \in DOMAIN d : IF reverse THEN d[x] >= d[y] ELSE d[x] <= d[y]
           rest == [y \in DOMAIN d \ {k} |-> d[y]]
       IN  {k} \cup FirstSorted(rest, n - 1, reverse)

calculate_best5_for_question(question) ==
  LET ascending == question \in questions_best_is_min
      state_means == calculate_state_means_and_sort(question)
      top5 == FirstSorted(state_means, 5, ~ascending)
  IN  [s \in top5 |-> state_means[s]]

calculate_worst5_for_question(question) ==
  LET ascending == question \in questions_best_is_min
      state_means == calculate_state_means_and_sort(question)
      \* the last five of the sorted list are the first five of the reversed one
      last5 == FirstSorted(state_means, 5, ascending)
  IN  [s \in last5 |-> state_means[s]]

calculate_global_mean_for_question(question) ==
  LET filtered_data == FilterQuestion(question)
  IN  IF filtered_data = {} THEN EmptyDict
      ELSE ("global_mean" :> Mean(filtered_data))

\* d[key] of a dict: KeyError when the key is absent
calculate_diff_from_mean(question) ==
  LET g == calculate_global_mean_for_question(question)
      state_means == calculate_state_means_and_sort(question)
  IN  IF "global_mean" \notin DOMAIN g THEN Raised("KeyError")
      ELSE Returned([s \in DOMAIN state_means |-> g["global_mean"] - state_means[s]])

calculate_state_diff_from_global_mean(question, state_name) ==
  LET g == calculate_global_mean_for_question(question)
      m == calculate_mean_for_state(question, state_name)
  IN  IF "global_mean" \notin DOMAIN g THEN Raised("KeyError")
      ELSE IF state_name \notin DOMAIN m THEN Raised("KeyError")
      ELSE Returned(state_name :> (-1) * (m[state_name] - g["global_mean"]))

calculate_mean_by_category(question) ==
  LET filtered_data == FilterQuestion(question)
      groups == { <<r.LocationDesc, r.StratificationCategory1, r.Stratification1>> :
                  r \in filtered_data }
  IN  IF filtered_data = {} THEN EmptyDict
      ELSE [k \in groups |->
              Mean({ r \in filtered_data : r.LocationDesc = k[1]
                       /\ r.StratificationCategory1 = k[2]
                       /\ r.Stratification1 = k[3] })]

calculate_state_mean_by_category(question, state_name) ==
  LET filtered_data == FilterQuestionState(question, state_name)
      groups == { <<r.StratificationCategory1, r.Stratification1>> : r \in filtered_data }
  IN  IF filtered_data = {} THEN EmptyDict
      ELSE (state_name :>
              [k \in groups |->
                 Mean({ r \in filtered_data : r.StratificationCategory1 = k[1]
                          /\ r.Stratification1 = k[2] })])

\* the nine job kinds, one per POST endpoint
Kinds ==
  { "states_mean", "state_mean", "best5", "worst5", "global_mean", "diff_from_mean",
    "state_diff_from_mean", "mean_by_category", "state_mean_by_category" }

\* the dispatch of TaskRunner.run: the engine call of a job type; "unknown"
\* is the branch that leaves result at None
Dispatch(job_type, question, state_name) ==
  CASE job_type = "states_mean" -> Returned(calculate_state_means_and_sort(question))
    [] job_type = "state_mean" -> Returned(calculate_mean_for_state(question, state_name))
    [] job_type = "best5" -> Returned(calculate_best5_for_question(question))
    [] job_type = "worst5" -> Returned(calculate_worst5_for_question(question))
    [] job_type = "global_mean" -> Returned(calculate_global_mean_for_question(question))
    [] job_type = "diff_from_mean" -> calculate_diff_from_mean(question)
    [] job_type = "state_diff_from_mean" ->
         calculate_state_diff_from_global_mean(question, state_name)
    [] job_type = "mean_by_category" -> Returned(calculate_mean_by_category(question))
    [] job_type = "state_mean_by_category" ->
         Returned(calculate_state_mean_by_category(question, state_name))
    [] OTHER -> Raised("unknown")

(* ---------------------------- result store ---------------------------- *)

\* A file is the sequence of chunks written to it.  json.dump writes an
\* opening brace, one chunk of body per item of the dict and a closing brace,
\* so that the text of a longer dict is longer.  A hole left by a write
\* beyond the end of the file reads as NUL bytes; a file of a previous run or
\* of another program may hold bytes that are not UTF-8.
Chunk(c) == [c |-> c, v |-> EmptyDict]
BodyChunk(d) == [c |-> "body", v |-> d]

\* json.dump(result, json_file): the complete text of a result
Serialize(result) ==
  << Chunk("{") >>
    \o [i \in 1..Cardinality(DOMAIN result) |-> BodyChunk(result)]
    \o << Chunk("}") >>

\* os.path.getsize
GetSize(text) == Len(text)

\* a parser that accepts a text whose closing brace is missing
LoadUnclosed(text) ==
  IF \E i \in 1..Len(text) : text[i].c = "xFF" THEN Raised("UnicodeDecodeError")
  ELSE IF Len(text) >= 2 /\ text \o << Chunk("}") >> = Serialize(text[2].v)
       THEN Returned(text[2].v)
  ELSE IF Len(text) >= 2 /\ text = Serialize(text[2].v)
       THEN Returned(text[2].v)
  ELSE Raised("JSONDecodeError")

\* json.load on open(file_path, 'r', encoding='utf-8'): the parsed value, or
\* the exception raised.  A text parses when it is the complete text of the
\* dict its items belong to, with nothing missing and nothing after it.
Load(text) ==
  IF \E i \in 1..Len(text) : text[i].c = "xFF" THEN Raised("UnicodeDecodeError")
  ELSE IF Len(text) >= 2 /\ text = Serialize(text[2].v)
       THEN Returned(text[2].v)
  ELSE Raised("JSONDecodeError")

\* write(2) of the chunks `data` at chunk offset pos (pos chunks precede it)
WriteAt(text, pos, data) ==
  LET n == IF Len(text) > pos + Len(data) THEN Len(text) ELSE pos + Len(data)
  IN  [i \in 1..n |->
         IF i > pos /\ i <= pos + Len(data) THEN data[i - pos]
         ELSE IF i <= Len(text) THEN text[i]
         ELSE Chunk("nul")]

(* ------------------------------- state -------------------------------- *)

Workers == 1..NumWorkers
Clients == 1..NumClients

\* job ids a run can allocate, and the ids a status query may ask for
\* (0 stands for an id that is never allocated, "job_id_unknown")
JobIds == 1..NumClients
UnknownId == 0
QueryIds == JobIds \cup {UnknownId}

\* the endpoints and request bodies the clients use: a state mean that has
\* rows, and a difference from the mean for a question that has none
Body(q, s) == [question |-> q, state |-> s]
Requests ==
  { <<"state_mean", Body("Q1", "S1")>>,
    <<"diff_from_mean", Body("Q0", None)>> }

\* result files a previous run of the server left in the results directory:
\* an empty one, a complete one, and one whose bytes are not UTF-8
StaleResult == ("S2" :> 6)
StaleTexts == { <<>>, Serialize(StaleResult), <<Chunk("xFF")>> }
StaleIds == {1}

NoResponse == [op |-> "none", id |-> UnknownId, status |-> "none", reason |-> "none",
               code |-> 0, data |-> EmptyDict]

VARIABLES
  job_counter,   \* webserver.job_counter
  jobs,          \* shared.jobs: job id -> [type]
  jobs_queue,    \* ThreadPool.jobs_queue: the work items (job_id, data)
  accept_jobs,   \* ThreadPool.accept_jobs
  files,         \* results directory: job id -> text of <job_id>.json
  client,        \* request threads of the POST endpoints
  worker,        \* TaskRunner threads
  sd,            \* the thread running graceful_shutdown
  resp,          \* the response of the GET request answered by the last step
  saves,         \* per id, the number of save_result_to_file calls that opened it
  persisted,     \* requests whose work item a worker processed and saved
  sd_returned,   \* a shutdown() call has returned
  sd_pending     \* items queued when shutdown() was called and still queued

vars == << job_counter, jobs, jobs_queue, accept_jobs, files, client, worker, sd, resp,
           saves, persisted, sd_returned, sd_pending >>

\* a request thread: its position in the handler, its locals, whether
\* add_job put its work item on the queue (queued) and whether the request
\* arrived after a shutdown() call had returned (late)
IdleClient == [pc |-> "idle", job_id |-> 0, tmp |-> 0, kind |-> "none",
               data |-> Body(None, None), queued |-> FALSE, late |-> FALSE]

\* a worker thread: its position in run(), the job it holds (by: the request
\* that queued it), the result to save and the chunks it has written
IdleWorker == [pc |-> "get", job_id |-> 0, by |-> 0, result |-> EmptyDict, pos |-> 0]

Init ==
  /\ job_counter = 1
  /\ jobs = <<>>
  /\ jobs_queue = <<>>
  /\ accept_jobs = TRUE
  /\ \/ files = <<>>
     \/ \E i \in StaleIds, t \in StaleTexts : files = (i :> t)
  /\ client = [c \in Clients |-> IdleClient]
  /\ worker = [w \in Workers |-> IdleWorker]
  /\ sd = [pc |-> "idle", i |-> 1]
  /\ resp = NoResponse
  /\ saves = [i \in JobIds |-> 0]
  /\ persisted = {}
  /\ sd_returned = FALSE
  /\ sd_pending = 0

(* ----------------------- submission endpoints ------------------------- *)

\* routes.py line 157: job_id = f"job_id_{webserver.job_counter}".  The request
\* threads are alike: they are numbered in the order in which they read the
\* counter.
Submit(c, kind, data) ==
  /\ client[c].pc = "idle"
  /\ \A b \in Clients : b < c => client[b].pc # "idle"
  /\ client' = [client EXCEPT ![c] =
                  [pc |-> "load", job_id |-> job_counter, tmp |-> 0, kind |-> kind,
                   data |-> data, queued |-> FALSE, late |-> sd_returned]]
  /\ resp' = NoResponse
  /\ UNCHANGED << job_counter, jobs, jobs_queue, accept_jobs, files, worker,
                  sd, saves, persisted, sd_returned, sd_pending >>

\* line 158, webserver.job_counter += 1: the load of the attribute
IncrementLoad(c) ==
  /\ client[c].pc = "load"
  /\ client' = [client EXCEPT ![c].pc = "store", ![c].tmp = job_counter]
  /\ resp' = NoResponse
  /\ UNCHANGED << job_counter, jobs, jobs_queue, accept_jobs, files, worker,
                  sd, saves, persisted, sd_returned, sd_pending >>

\* line 158: the store of the incremented value
IncrementStore(c) ==
  /\ client[c].pc = "store"
  /\ job_counter' = client[c].tmp + 1
  /\ client' = [client EXCEPT ![c].pc = "register", ![c].tmp = 0]
  /\ resp' = NoResponse
  /\ UNCHANGED << jobs, jobs_queue, accept_jobs, files, worker, sd,
                  saves, persisted, sd_returned, sd_pending >>

\* a submission that queues the work item without registering the job
RegistryInsertSkipped(registry, job_id, kind) == registry

\* jobs[job_id] = {'type': kind}
RegistryInsert(registry, job_id, kind) ==
  [i \in DOMAIN registry \cup {job_id} |->
     IF i = job_id THEN [type |-> kind] ELSE registry[i]]

\* lines 162-163: with jobs_lock: jobs[job_id] = {'type': ...}
Register(c) ==
  /\ client[c].pc = "register"
  /\ jobs' = RegistryInsert(jobs, client[c].job_id, client[c].kind)
  /\ client' = [client EXCEPT ![c].pc = "add_job"]
  /\ resp' = NoResponse
  /\ UNCHANGED << job_counter, jobs_queue, accept_jobs, files, worker, sd,
                  saves, persisted, sd_returned, sd_pending >>

\* line 162 alone: with jobs_lock is entered; the handler is in the critical
\* section until the insert of line 163 is done ("locked")
LockAcquire(c) ==
  /\ client[c].pc = "register"
  /\ \A b \in Clients : client[b].pc # "locked"
  /\ client' = [client EXCEPT ![c].pc = "locked"]
  /\ resp' = NoResponse
  /\ UNCHANGED << job_counter, jobs, jobs_queue, accept_jobs, files, worker, sd,
                  saves, persisted, sd_returned, sd_pending >>

\* line 163 and the end of the with block: the insert, then the release
LockedInsert(c) ==
  /\ client[c].pc = "locked"
  /\ jobs' = RegistryInsert(jobs, client[c].job_id, client[c].kind)
  /\ client' = [client EXCEPT ![c].pc = "add_job"]
  /\ resp' = NoResponse
  /\ UNCHANGED << job_counter, jobs_queue, accept_jobs, files, worker, sd,
                  saves, persisted, sd_returned, sd_pending >>

\* an add_job that does not look at the intake flag
AddJobAcceptsAlways(flag) == TRUE

\* ThreadPool.add_job, line 64: the test of the intake flag
AddJobAccepts(flag) == flag

\* add_job, lines 64 and 68-69, and routes.py line 169: when the flag is false
\* the work item is dropped and the handler returns the job id
AddJobCheck(c) ==
  /\ client[c].pc = "add_job"
  /\ client' = [client EXCEPT ![c].pc =
                  IF AddJobAccepts(accept_jobs) THEN "put" ELSE "done"]
  /\ resp' = NoResponse
  /\ UNCHANGED << job_counter, jobs, jobs_queue, accept_jobs, files, worker,
                  sd, saves, persisted, sd_returned, sd_pending >>

\* a queue built with maxsize 1: put blocks while an item is queued
QueueHasRoomForOne(queue) == Len(queue) < 1

\* ThreadPool.__init__, line 43: Queue() has no maxsize, put never blocks
QueueHasRoom(queue) == TRUE

\* add_job, line 65: self.jobs_queue.put((job_id, data)), and routes.py
\* line 169: return jsonify({'job_id': job_id}), 200
AddJobPut(c) ==
  /\ client[c].pc = "put"
  /\ QueueHasRoom(jobs_queue)
  /\ jobs_queue' = Append(jobs_queue, [job_id |-> client[c].job_id,
                                       data |-> client[c].data, by |-> c])
  /\ client' = [client EXCEPT ![c].pc = "done", ![c].queued = TRUE]
  /\ resp' = NoResponse
  /\ UNCHANGED << job_counter, jobs, accept_jobs, files, worker, sd,
                  saves, persisted, sd_returned, sd_pending >>

\* ThreadPool.get_num_jobs: self.jobs_queue.qsize()
get_num_jobs(queue) == Len(queue)

(* ------------------------------ workers ------------------------------- *)

\* the thread has left run(): by the idle timeout or by an uncaught exception
Terminated(w) == worker[w].pc \in {"stopped", "crashed"}

\* a pool that starts a thread again when its worker has stopped
WaitingOrStopped(w) == worker[w].pc \in {"get", "stopped"}

\* line 128: the thread is in run(), blocked in self.jobs_queue.get
Waiting(w) == worker[w].pc = "get"

\* a get that hands out the oldest item and leaves it on the queue
QueuePeek(queue) == [item |-> Head(queue), rest |-> queue]

\* a get that hands out the newest item
QueueGetNewest(queue) ==
  [item |-> queue[Len(queue)], rest |-> SubSeq(queue, 1, Len(queue) - 1)]

\* line 128, Queue.get on a non-empty queue: the oldest item is removed and
\* returned (the queue's own mutex makes the get of each worker one step)
QueueGet(queue) == [item |-> Head(queue), rest |-> Tail(queue)]

\* TaskRunner.run, lines 128-172: the dequeue, the registry lookup and the
\* engine call of one job (the engine only reads the immutable dataset).
\*   no registry entry      -> task_done, next iteration
\*   unknown job type       -> result stays None, nothing is saved
\*   the engine raises      -> not an OSError: the exception leaves run()
\*   the engine returns     -> save_result_to_file
Dequeue(w) ==
  /\ Waiting(w)
  /\ jobs_queue # <<>>
  /\ LET item == QueueGet(jobs_queue).item
         job_id == item.job_id
         out == IF job_id \in DOMAIN jobs
                THEN Dispatch(jobs[job_id].type, item.data.question, item.data.state)
                ELSE Raised("absent")
     IN  worker' = [worker EXCEPT ![w] =
           CASE out.exc = "none" ->
                  [pc |-> "save", job_id |-> job_id, by |-> item.by,
                   result |-> out.value, pos |-> 0]
             [] out.exc \in {"absent", "unknown"} -> IdleWorker
             [] OTHER -> [IdleWorker EXCEPT !.pc = "crashed"]]
  /\ jobs_queue' = QueueGet(jobs_queue).rest
  /\ sd_pending' = IF sd_pending > 0 THEN sd_pending - 1 ELSE 0
  /\ resp' = NoResponse
  /\ UNCHANGED << job_counter, jobs, accept_jobs, files, client,
                  sd, saves, persisted, sd_returned >>

\* a get without a timeout: it waits for an item for ever
GetNeverTimesOut(queue) == FALSE

\* line 128, get(timeout=120) raises queue.Empty when the queue stayed empty
\* for the 120 s of the timeout
GetTimesOut(queue) == queue = <<>>

\* lines 128-134: the queue stayed empty for the 120 s of the timeout
IdleTimeout(w) ==
  /\ Waiting(w)
  /\ GetTimesOut(jobs_queue)
  /\ worker' = [worker EXCEPT ![w].pc = "stopped"]
  /\ resp' = NoResponse
  /\ UNCHANGED << job_counter, jobs, jobs_queue, accept_jobs, files, client,
                  sd, saves, persisted, sd_returned, sd_pending >>

\* the text of a file, empty when the file does not exist
TextOf(dir, job_id) == IF job_id \in DOMAIN dir THEN dir[job_id] ELSE <<>>

SetText(dir, job_id, text) ==
  [i \in DOMAIN dir \cup {job_id} |-> IF i = job_id THEN text ELSE dir[i]]

\* save_result_to_file, line 111: open(file_path, 'w') creates or truncates
SaveOpen(w) ==
  /\ worker[w].pc = "save"
  /\ files' = SetText(files, worker[w].job_id, <<>>)
  /\ saves' = [saves EXCEPT ![worker[w].job_id] = @ + 1]
  /\ worker' = [worker EXCEPT ![w].pc = "write"]
  /\ resp' = NoResponse
  /\ UNCHANGED << job_counter, jobs, jobs_queue, accept_jobs, client,
                  sd, persisted, sd_returned, sd_pending >>

\* line 114: the buffer fills during json.dump and is flushed before the
\* text is complete
SaveFlush(w) ==
  /\ worker[w].pc = "write"
  /\ worker[w].pos = 0
  /\ LET part == Len(Serialize(worker[w].result)) - 1
     IN  /\ files' = SetText(files, worker[w].job_id,
                             WriteAt(TextOf(files, worker[w].job_id), 0,
                                     SubSeq(Serialize(worker[w].result), 1, part)))
         /\ worker' = [worker EXCEPT ![w].pos = part]
  /\ resp' = NoResponse
  /\ UNCHANGED << job_counter, jobs, jobs_queue, accept_jobs, client, sd,
                  saves, persisted, sd_returned, sd_pending >>

\* lines 111-115: the end of the with block writes what is still buffered and
\* closes the file
SaveClose(w) ==
  /\ worker[w].pc = "write"
  /\ files' = SetText(files, worker[w].job_id,
                      WriteAt(TextOf(files, worker[w].job_id), worker[w].pos,
                              SubSeq(Serialize(worker[w].result), worker[w].pos + 1,
                                     Len(Serialize(worker[w].result)))))
  /\ persisted' = persisted \cup {worker[w].by}
  /\ worker' = [worker EXCEPT ![w] = IdleWorker]
  /\ resp' = NoResponse
  /\ UNCHANGED << job_counter, jobs, jobs_queue, accept_jobs, client,
                  sd, saves, sd_returned, sd_pending >>

\* lines 116-117: open or write raises OSError; it is logged and run() goes on
SaveFails(w) ==
  /\ worker[w].pc \in {"save", "write"}
  /\ worker' = [worker EXCEPT ![w] = IdleWorker]
  /\ resp' = NoResponse
  /\ UNCHANGED << job_counter, jobs, jobs_queue, accept_jobs, files, client,
                  sd, saves, persisted, sd_returned, sd_pending >>

(* ------------------------------ shutdown ------------------------------ *)

\* ThreadPool.shutdown, line 77: self.accept_jobs = False
ShutdownCall ==
  /\ sd.pc \in {"idle", "done"}
  /\ accept_jobs' = FALSE
  /\ sd' = [pc |-> "join", i |-> 1]
  /\ sd_pending' = Len(jobs_queue)
  /\ resp' = NoResponse
  /\ UNCHANGED << job_counter, jobs, jobs_queue, files, client,
                  worker, saves, persisted, sd_returned >>

\* a join that does not wait for the thread
JoinReturnsAtOnce(w) == TRUE

\* worker.join() returns when the thread has terminated
JoinReturns(w) == Terminated(w)

\* lines 78-79: for worker in self.workers: worker.join()
ShutdownJoin ==
  /\ sd.pc = "join"
  /\ sd.i <= NumWorkers
  /\ JoinReturns(sd.i)
  /\ sd' = [sd EXCEPT !.i = @ + 1]
  /\ resp' = NoResponse
  /\ UNCHANGED << job_counter, jobs, jobs_queue, accept_jobs, files, client,
                  worker, saves, persisted, sd_returned, sd_pending >>

\* a shutdown() that opens the intake again when the workers are joined
ShutdownReturnReopening ==
  /\ sd.pc = "join"
  /\ sd.i = NumWorkers + 1
  /\ sd' = [sd EXCEPT !.pc = "done"]
  /\ sd_returned' = TRUE
  /\ accept_jobs' = TRUE
  /\ resp' = NoResponse
  /\ UNCHANGED << job_counter, jobs, jobs_queue, files, client,
                  worker, saves, persisted, sd_pending >>

\* line 81 and routes.py line 23: shutdown() returns, the request is answered
ShutdownReturn ==
  /\ sd.pc = "join"
  /\ sd.i = NumWorkers + 1
  /\ sd' = [sd EXCEPT !.pc = "done"]
  /\ sd_returned' = TRUE
  /\ resp' = NoResponse
  /\ UNCHANGED << job_counter, jobs, jobs_queue, accept_jobs, files, client,
                  worker, saves, persisted, sd_pending >>

(* ------------------------------ queries ------------------------------- *)

Response(op, id, status, reason, code, data) ==
  [op |-> op, id |-> id, status |-> status, reason |-> reason, code |-> code,
   data |-> data]

\* a get_response that looks at the result file before the registry
get_response_FileFirst(registry, dir, job_id) ==
  IF job_id \in DOMAIN dir /\ GetSize(dir[job_id]) > 0
  THEN Response("get_results", job_id, "done", "none", 200, Load(dir[job_id]).value)
  ELSE IF job_id \notin DOMAIN registry
  THEN Response("get_results", job_id, "error", "Invalid job_id", 404, EmptyDict)
  ELSE Response("get_results", job_id, "running", "none", 200, EmptyDict)

\* routes.py get_response, lines 95-142, on the registry and the results
\* directory as they are.  An exception that no except clause names leaves the
\* handler (status "unhandled").
get_response(registry, dir, job_id) ==
  IF job_id \notin DOMAIN registry
  THEN Response("get_results", job_id, "error", "Invalid job_id", 404, EmptyDict)
  ELSE IF job_id \in DOMAIN dir /\ GetSize(dir[job_id]) > 0
  THEN LET content == Load(dir[job_id])
       IN  CASE content.exc = "none" ->
                  Response("get_results", job_id, "done", "none", 200, content.value)
             [] content.exc = "JSONDecodeError" ->
                  Response("get_results", job_id, "error",
                           "Invalid or corrupt result file", 500, EmptyDict)
             [] OTHER ->
                  Response("get_results", job_id, "unhandled", content.exc, 500, EmptyDict)
  ELSE Response("get_results", job_id, "running", "none", 200, EmptyDict)

\* a status query that looks the id up with setdefault and so registers it
GetResultsRegistering(job_id) ==
  /\ resp' = get_response(jobs, files, job_id)
  /\ jobs' = IF job_id \in DOMAIN jobs THEN jobs
             ELSE [i \in DOMAIN jobs \cup {job_id} |->
                     IF i = job_id THEN [type |-> "none"] ELSE jobs[i]]
  /\ UNCHANGED << job_counter, jobs_queue, accept_jobs, files, client, worker,
                  sd, saves, persisted, sd_returned, sd_pending >>

\* GET /api/get_results/<job_id>
GetResults(job_id) ==
  /\ resp' = get_response(jobs, files, job_id)
  /\ UNCHANGED << job_counter, jobs, jobs_queue, accept_jobs, files, client, worker,
                  sd, saves, persisted, sd_returned, sd_pending >>

\* a listing that also reports the registered jobs that have no file
list_jobs_WithRegistered(dir) ==
  [i \in DOMAIN dir \cup DOMAIN jobs |->
     IF i \in DOMAIN dir /\ GetSize(dir[i]) > 0 THEN "done" ELSE "running"]

\* routes.py list_jobs, lines 40-54: one entry per file of the results
\* directory, done when the file is not empty
list_jobs(dir) ==
  [i \in DOMAIN dir |-> IF GetSize(dir[i]) > 0 THEN "done" ELSE "running"]

\* GET /api/jobs
ListJobs ==
  /\ resp' = Response("list_jobs", UnknownId, "success", "none", 200, list_jobs(files))
  /\ UNCHANGED << job_counter, jobs, jobs_queue, accept_jobs, files, client, worker,
                  sd, saves, persisted, sd_returned, sd_pending >>

(* --------------------------- specifications --------------------------- *)

\* The whole server: submissions, workers, result files, shutdown and status
\* queries, started on a results directory that may hold a file of an
\* earlier run.
Next ==
  \/ \E c \in Clients, r \in Requests : Submit(c, r[1], r[2])
  \/ \E c \in Clients : IncrementLoad(c)
  \/ \E c \in Clients : IncrementStore(c)
  \/ \E c \in Clients : Register(c)
  \/ \E c \in Clients : AddJobCheck(c)
  \/ \E c \in Clients : AddJobPut(c)
  \/ \E w \in Workers : Dequeue(w)
  \/ \E w \in Workers : IdleTimeout(w)
  \/ \E w \in Workers : SaveOpen(w)
  \/ \E w \in Workers : SaveFlush(w)
  \/ \E w \in Workers : SaveClose(w)
  \/ \E w \in Workers : SaveFails(w)
  \/ ShutdownCall
  \/ ShutdownJoin
  \/ ShutdownReturn
  \/ \E i \in JobIds : GetResults(i)
  \/ ListJobs

Spec == Init /\ [][Next]_vars

\* The intake and the pool: every step that reads or writes the counter, the
\* registry, the queue, the intake flag or a thread's position.  The steps
\* left out (a partial flush, a status query) change only a file's text, a
\* writer's offset or the response, which none of these steps reads; the
\* results directory starts empty.
InitPool == Init /\ files = <<>>

NextPool ==
  \/ \E c \in Clients, r \in Requests : Submit(c, r[1], r[2])
  \/ \E c \in Clients : IncrementLoad(c)
  \/ \E c \in Clients : IncrementStore(c)
  \/ \E c \in Clients : Register(c)
  \/ \E c \in Clients : AddJobCheck(c)
  \/ \E c \in Clients : AddJobPut(c)
  \/ \E w \in Workers : Dequeue(w)
  \/ \E w \in Workers : IdleTimeout(w)
  \/ \E w \in Workers : SaveOpen(w)
  \/ \E w \in Workers : SaveClose(w)
  \/ \E w \in Workers : SaveFails(w)
  \/ ShutdownCall
  \/ ShutdownJoin
  \/ ShutdownReturn

SpecPool == InitPool /\ [][NextPool]_vars

\* The server after an idle period: every worker has left run() by the idle
\* timeout, the intake is open, and requests arrive.
InitIdle ==
  /\ job_counter = 1
  /\ jobs = <<>>
  /\ jobs_queue = <<>>
  /\ accept_jobs = TRUE
  /\ \/ files = <<>>
     \/ \E i \in StaleIds, t \in StaleTexts : files = (i :> t)
  /\ client = [c \in Clients |-> IdleClient]
  /\ worker = [w \in Workers |-> [IdleWorker EXCEPT !.pc = "stopped"]]
  /\ sd = [pc |-> "idle", i |-> 1]
  /\ resp = NoResponse
  /\ saves = [i \in JobIds |-> 0]
  /\ persisted = {}
  /\ sd_returned = FALSE
  /\ sd_pending = 0

NextIdle ==
  \/ \E c \in Clients, r \in Requests : Submit(c, r[1], r[2])
  \/ \E c \in Clients : IncrementLoad(c)
  \/ \E c \in Clients : IncrementStore(c)
  \/ \E c \in Clients : Register(c)
  \/ \E c \in Clients : AddJobCheck(c)
  \/ \E c \in Clients : AddJobPut(c)
  \/ \E i \in JobIds : GetResults(i)

SpecIdle == InitIdle /\ [][NextIdle]_vars

\* The registry and its lock: the insert of a submission in two steps, the
\* entry of the critical section and the insert with the release, next to
\* the lookups of the workers and of the status query.
NextLock ==
  \/ \E c \in Clients, r \in Requests : Submit(c, r[1], r[2])
  \/ \E c \in Clients : IncrementLoad(c)
  \/ \E c \in Clients : IncrementStore(c)
  \/ \E c \in Clients : LockAcquire(c)
  \/ \E c \in Clients : LockedInsert(c)
  \/ \E c \in Clients : AddJobCheck(c)
  \/ \E c \in Clients : AddJobPut(c)
  \/ \E w \in Workers : Dequeue(w)
  \/ \E w \in Workers : IdleTimeout(w)
  \/ \E w \in Workers : SaveOpen(w)
  \/ \E w \in Workers : SaveClose(w)
  \/ \E w \in Workers : SaveFails(w)
  \/ \E i \in QueryIds : GetResults(i)

SpecLock == InitPool /\ [][NextLock]_vars

\* The status query as a function of the registry and the results directory:
\* every registry over the job ids and every directory of files whose text
\* is one a writer or an earlier run can leave.
ResultValues ==
  { Dispatch(k, r[2].question, r[2].state).value : k \in { q[1] : q \in Requests },
                                                   r \in Requests }
FileTexts ==
  StaleTexts
    \cup { Serialize(v) : v \in ResultValues }
    \cup { SubSeq(Serialize(v), 1, Len(Serialize(v)) - 1) : v \in ResultValues }
    \cup { WriteAt(<<>>, 2, <<Chunk("}")>>) }

Registries ==
  UNION { [S -> { [type |-> r[1]] : r \in Requests }] : S \in SUBSET JobIds }

Directories == UNION { [S -> FileTexts] : S \in SUBSET JobIds }

InitStatus ==
  /\ job_counter = 1
  /\ jobs \in Registries
  /\ jobs_queue = <<>>
  /\ accept_jobs = TRUE
  /\ files \in Directories
  /\ client = [c \in Clients |-> IdleClient]
  /\ worker = [w \in Workers |-> IdleWorker]
  /\ sd = [pc |-> "idle", i |-> 1]
  /\ resp = NoResponse
  /\ saves = [i \in JobIds |-> 0]
  /\ persisted = {}
  /\ sd_returned = FALSE
  /\ sd_pending = 0

NextStatus == \E i \in QueryIds : GetResults(i)

SpecStatus == InitStatus /\ [][NextStatus]_vars

(* ------------------------------ properties ----------------------------- *)

\* everything but the response of a query
StoreVars == << job_counter, jobs, jobs_queue, accept_jobs, files, client, worker, sd,
                saves, persisted, sd_returned, sd_pending >>

\* the handler of request c has returned its job id
HasReturned(c) == client[c].pc = "done"

\* the work item of request c has not been taken from the queue by a worker
NotDequeued(c) ==
  \/ ~client[c].queued
  \/ \E i \in 1..Len(jobs_queue) : jobs_queue[i].by = c

\* the engine's result for the endpoint and the parameters of request c
EngineResult(c) == Dispatch(client[c].kind, client[c].data.question, client[c].data.state)

\* C1: under every interleaving of submissions the returned job ids are
\* pairwise distinct and increase in the order of issue, and no id below an
\* issued one was left out.
C1_IdsDistinctIncreasingNoSkip ==
  /\ \A b, c \in Clients :
       (b < c /\ HasReturned(b) /\ HasReturned(c)) => client[b].job_id < client[c].job_id
  /\ \A c \in Clients :
       client[c].pc # "idle" =>
         \A i \in 1..(client[c].job_id - 1) :
           \E b \in Clients : client[b].pc # "idle" /\ client[b].job_id = i

\* C2: once a worker has processed and saved the job of a request, the status
\* query for its id answers done with the engine's result for the kind and
\* the parameters of that request.
C2_DoneWithEngineResult ==
  \A c \in persisted :
    (resp.op = "get_results" /\ resp.id = client[c].job_id) =>
      /\ resp.status = "done"
      /\ EngineResult(c).exc = "none"
      /\ resp.data = EngineResult(c).value

\* C3: a status query for a returned job id, answered while no worker has
\* taken that job from the queue, answers running.
C3_RunningBeforeDequeue ==
  \A c \in Clients :
    (resp.op = "get_results" /\ HasReturned(c) /\ resp.id = client[c].job_id
       /\ NotDequeued(c)) => resp.status = "running"

\* C4: a status query for an id without a registry entry answers the
\* not-found error (reason "Invalid job_id", 404), whatever the registry and
\* the results directory hold, and changes nothing.
C4_UnknownIdNotFound ==
  [][(resp'.op = "get_results" /\ resp'.id \notin DOMAIN jobs) =>
        /\ resp'.status = "error"
        /\ resp'.reason = "Invalid job_id"
        /\ resp'.code = 404
        /\ UNCHANGED StoreVars]_vars

\* C4, reached: not found for an id that has a non-empty file, while the
\* registry holds other entries
C4_Witness ==
  /\ resp.op = "get_results"
  /\ resp.code = 404
  /\ resp.id \in DOMAIN files
  /\ GetSize(files[resp.id]) > 0
  /\ jobs # <<>>

\* C5: a status query for a registered id whose file is non-empty and does not
\* parse answers error with reason "Invalid or corrupt result file": never
\* done, never running, never an exception that leaves the handler.
C5_CorruptFileIsError ==
  (/\ resp.op = "get_results"
   /\ resp.id \in DOMAIN jobs
   /\ resp.id \in DOMAIN files
   /\ GetSize(files[resp.id]) > 0
   /\ Load(files[resp.id]).exc # "none") =>
     /\ resp.status = "error"
     /\ resp.reason = "Invalid or corrupt result file"

\* C6: for every returned job id the registry holds an entry if and only if
\* the work item of that job was put on the queue by add_job.
C6_EntryIffAccepted ==
  \A c \in Clients :
    HasReturned(c) => ((client[c].job_id \in DOMAIN jobs) <=> client[c].queued)

\* C7: the result file of a job id is opened for writing at most once over a
\* run.
C7_FileWrittenAtMostOnce == \A i \in JobIds : saves[i] <= 1

\* C8: no step of a submission that arrived after shutdown() returned changes
\* the queue: add_job puts nothing and get_num_jobs is the same before and
\* after.
C8_LateSubmissionKeepsDepth ==
  [][\A c \in Clients :
       (client'[c].late /\ client'[c] # client[c]) =>
         /\ jobs_queue' = jobs_queue
         /\ get_num_jobs(jobs_queue') = get_num_jobs(jobs_queue)]_vars

\* C8, reached: a late submission has returned while work items are queued
C8_Witness ==
  \E c \in Clients :
    client[c].late /\ HasReturned(c) /\ ~client[c].queued /\ get_num_jobs(jobs_queue) > 0

\* C9: when shutdown() returns the queue is empty and no work item that was
\* queued when shutdown() was called is still queued.
C9_DrainedAtReturn ==
  [][(sd.pc = "join" /\ sd'.pc = "done") =>
        (jobs_queue' = <<>> /\ sd_pending' = 0)]_vars

\* C10: while shutdown() waits on the workers and after it has returned the
\* intake flag is false; it has joined only terminated workers, and it returns
\* only when every worker has terminated.
C10_ShutdownWaitsForWorkers ==
  /\ sd.pc \in {"join", "done"} => ~accept_jobs
  /\ sd.pc = "join" => \A w \in Workers : w < sd.i => Terminated(w)
  /\ sd.pc = "done" => \A w \in Workers : Terminated(w)

\* C10, reached: shutdown() has returned after the pool processed a job, one
\* worker ended by an engine fault and another by the idle timeout
C10_Witness ==
  /\ sd.pc = "done"
  /\ persisted # {}
  /\ \E w \in Workers : worker[w].pc = "crashed"
  /\ \E w \in Workers : worker[w].pc = "stopped"

\* a step in which worker w takes an item from the queue: it leaves the get
\* for the save of the result or leaves run() by the engine's exception
Takes(w) == worker[w].pc = "get" /\ worker'[w].pc \in {"save", "crashed"}

\* a step in which add_job puts the work item of request c on the queue
Puts(c) == ~client[c].queued /\ client'[c].queued

\* C11: the queue depth is the number of items put minus the number taken
\* by workers: every put raises get_num_jobs by one, every take lowers it by
\* one at the step of the take, whether the job is then saved, faults or
\* fails to persist, and no other step changes it (so a job a worker holds
\* is not counted).
C11_DepthIsPutsMinusTakes ==
  [][/\ \A w \in Workers :
          Takes(w) => get_num_jobs(jobs_queue') = get_num_jobs(jobs_queue) - 1
     /\ \A c \in Clients :
          Puts(c) => get_num_jobs(jobs_queue') = get_num_jobs(jobs_queue) + 1
     /\ ((\A w \in Workers : ~Takes(w)) /\ (\A c \in Clients : ~Puts(c)))
          => get_num_jobs(jobs_queue') = get_num_jobs(jobs_queue)]_vars

\* every request was queued; one job made its worker leave run(), the other
\* is being saved, and the depth is zero
C11_Witness ==
  /\ \A c \in Clients : client[c].queued
  /\ \E w \in Workers : worker[w].pc = "crashed"
  /\ \E w \in Workers : worker[w].pc \in {"save", "write"}
  /\ get_num_jobs(jobs_queue) = 0

\* C12: items leave the queue in the order in which they were put, whatever
\* worker takes them: a put adds the item behind all queued ones, a take
\* removes the item at the front and the worker holds that item.
C12_FifoAcrossPool ==
  [][/\ \A c \in Clients :
          Puts(c) => /\ Len(jobs_queue') = Len(jobs_queue) + 1
                     /\ SubSeq(jobs_queue', 1, Len(jobs_queue)) = jobs_queue
                     /\ jobs_queue'[Len(jobs_queue')].by = c
     /\ \A w \in Workers :
          Takes(w) => /\ jobs_queue' = Tail(jobs_queue)
                      /\ worker'[w].pc = "save" => worker'[w].by = Head(jobs_queue).by]_vars

\* a worker holds the item of the request that was put first although that
\* request read the counter last; the item put after it is still queued
C12_Witness ==
  \E w \in Workers :
    /\ worker[w].pc = "save"
    /\ jobs_queue # <<>>
    /\ worker[w].by > jobs_queue[1].by

\* C13: a submission never waits on a worker: wherever a request thread is in
\* its handler (read of the counter, increment, registry insert, test of the
\* intake flag, put, in that order) its next step can be taken, whatever the
\* queue holds and whatever the workers do, also when no worker is alive.
C13_SubmissionNeverBlocks ==
  \A c \in Clients :
    /\ (client[c].pc = "idle" /\ \A b \in Clients : b < c => client[b].pc # "idle")
         => ENABLED (\E r \in Requests : Submit(c, r[1], r[2]))
    /\ client[c].pc = "load" => ENABLED IncrementLoad(c)
    /\ client[c].pc = "store" => ENABLED IncrementStore(c)
    /\ client[c].pc = "register" => ENABLED Register(c)
    /\ client[c].pc = "add_job" => ENABLED AddJobCheck(c)
    /\ client[c].pc = "put" => ENABLED AddJobPut(c)

\* every worker has left run(), and every request was still registered,
\* queued and answered: the queue holds all the items
C13_Witness ==
  /\ \A w \in Workers : Terminated(w)
  /\ \A c \in Clients : HasReturned(c) /\ client[c].queued
                          /\ client[c].job_id \in DOMAIN jobs
  /\ get_num_jobs(jobs_queue) = NumClients

\* C14: the pool never grows and no worker comes back: the workers are those
\* made at construction, and a worker that has left run() stays as it is in
\* every later step.
C14_WorkersOnlyShrink ==
  [][/\ DOMAIN worker' = Workers
     /\ \A w \in Workers : Terminated(w) => worker'[w] = worker[w]]_vars

\* a worker has left run() and stays out while an item waits in the queue
\* and another worker is saving a result
C14_Witness ==
  /\ \E w \in Workers : Terminated(w)
  /\ \E w \in Workers : worker[w].pc = "write"
  /\ jobs_queue # <<>>

\* the rows of the dataset a request of this kind looks at
RequestRows(kind, data) ==
  IF kind \in {"state_mean", "state_diff_from_mean", "state_mean_by_category"}
  THEN FilterQuestionState(data.question, data.state)
  ELSE FilterQuestion(data.question)

\* the work item of request c was put on the queue and a worker took it
Dequeued(c) == client[c].queued /\ ~\E i \in 1..Len(jobs_queue) : jobs_queue[i].by = c

\* C15: with no worker alive and the intake open, every job that is submitted
\* is accepted and queued and never taken from the queue, and the status of
\* its id is running at every query.
C15_OrphanJobStaysRunning ==
  ((\A w \in Workers : Terminated(w)) /\ accept_jobs) =>
    \A c \in Clients :
      HasReturned(c) =>
        /\ client[c].queued
        /\ ~Dequeued(c)
        /\ (resp.op = "get_results" /\ resp.id = client[c].job_id)
             => resp.status = "running"

\* C16: no lookup in the registry, by the status query or by a worker that
\* took an item, is a step taken while a submission is inside the critical
\* section of jobs_lock.
C16_LookupsExcludeInsert ==
  [][(resp'.op = "get_results" \/ \E w \in Workers : Takes(w))
       => \A c \in Clients : client[c].pc # "locked"]_vars

\* C17: a registry entry is never removed and never changed: every id the
\* registry maps keeps its kind in every step.
C17_EntriesImmutable ==
  [][\A i \in DOMAIN jobs : i \in DOMAIN jobs' /\ jobs'[i] = jobs[i]]_vars

\* C18: a job whose parameters match no row of the dataset completes without
\* error: once a worker took it, the engine's outcome for the request is the
\* empty mapping and no worker has left run() by an exception.
C18_NoRowsJobCompletes ==
  \A c \in Clients :
    (client[c].kind \in Kinds /\ RequestRows(client[c].kind, client[c].data) = {}
       /\ Dequeued(c))
      => /\ EngineResult(c) = Returned(EmptyDict)
         /\ \A w \in Workers : worker[w].pc # "crashed"

\* C19: no job ends the worker that took it: a worker that has left run()
\* left it by the idle timeout on an empty queue.
C19_OnlyIdleTimeoutEndsWorker ==
  \A w \in Workers : Terminated(w) => worker[w].pc = "stopped"

\* C20: once a worker has saved the result of a job, every answer of
\* list_jobs holds an entry for the job's id, with status done.
C20_ListedDoneAfterSave ==
  resp.op = "list_jobs" =>
    \A c \in persisted :
      /\ client[c].job_id \in DOMAIN resp.data
      /\ resp.data[client[c].job_id] = "done"

\* no other request holds the job id of request c: the registry entry of the
\* id is the one c inserted
OwnId(c) == \A b \in Clients \ {c} : client[b].job_id # client[c].job_id

\* the work item of request c was taken by a worker, no worker holds it any
\* more and its result was not saved
EndedUnsaved(c) ==
  /\ Dequeued(c)
  /\ c \notin persisted
  /\ \A w \in Workers : worker[w].by # c

\* the engine raised for the job of request c (the exception left run())
Faulted(c) ==
  EndedUnsaved(c) /\ OwnId(c) /\ EngineResult(c).exc \notin {"none", "unknown"}

\* the engine returned for the job of request c and the save raised OSError
WriteFailed(c) == EndedUnsaved(c) /\ OwnId(c) /\ EngineResult(c).exc = "none"

\* C21: when the engine raises for a job something that is not an OSError,
\* the worker leaves run() for good, no save is started for the job's id and
\* every status query for the id answers running.
C21_EngineFaultLeavesRunning ==
  \A c \in Clients :
    Faulted(c) =>
      /\ \E w \in Workers : worker[w].pc = "crashed"
      /\ saves[client[c].job_id] = 0
      /\ (resp.op = "get_results" /\ resp.id = client[c].job_id)
           => resp.status = "running"

\* C22: when the save of a job's result raises OSError the job is not queued
\* again and every status query for its id answers running, never done and
\* never error.
C22_WriteFaultLeavesRunning ==
  \A c \in Clients :
    WriteFailed(c) =>
      /\ \A i \in 1..Len(jobs_queue) : jobs_queue[i].by # c
      /\ (resp.op = "get_results" /\ resp.id = client[c].job_id)
           => resp.status = "running"

\* one step of the thread of worker w, whatever its position in run()
WorkerStep(w) ==
  Dequeue(w) \/ IdleTimeout(w) \/ SaveOpen(w) \/ SaveClose(w) \/ SaveFails(w)

\* The intake and the pool under fair scheduling: a thread that can take a
\* step of run() or of shutdown() eventually is scheduled.  No request has to
\* arrive and no handler of a request has to go on.
SpecPoolFair ==
  /\ InitPool
  /\ [][NextPool]_vars
  /\ \A w \in Workers : WF_vars(WorkerStep(w))
  /\ WF_vars(ShutdownJoin)
  /\ WF_vars(ShutdownReturn)

\* C23: under fair scheduling a call of shutdown() eventually returns: every
\* worker leaves run(), by the timeout of the get once the queue stays empty
\* or by an exception, and every join completes.
C23_ShutdownEventuallyReturns == (sd.pc = "join") ~> (sd.pc = "done")

\* C23, reached: shutdown() has returned, the job of every client is saved
\* and every worker left run() by the timeout of the get
C23_Witness ==
  /\ sd.pc = "done"
  /\ persisted = Clients
  /\ \A w \in Workers : worker[w].pc = "stopped"

\* C24: every work item on the queue, and so every item a worker takes, has
\* a registry entry for its job id when the worker looks it up: the branch of
\* run() for an absent job is never taken.
C24_DequeuedJobIsRegistered ==
  /\ \A i \in 1..Len(jobs_queue) : jobs_queue[i].job_id \in DOMAIN jobs
  /\ \A w \in Workers :
       worker[w].pc \in {"save", "write"} => worker[w].job_id \in DOMAIN jobs

\* C24, reached: a worker found the entry of the item it took while the item
\* of another request, registered as well, waits on the queue
C24_Witness ==
  /\ \E w \in Workers :
       /\ worker[w].pc = "save"
       /\ worker[w].job_id \in DOMAIN jobs
       /\ jobs[worker[w].job_id].type = client[worker[w].by].kind
  /\ jobs_queue # <<>>
  /\ \A i \in 1..Len(jobs_queue) : jobs_queue[i].job_id \in DOMAIN jobs

(* ----------------------- one request, any endpoint --------------------- *)

\* the nine POST handlers of routes.py
Endpoints ==
  { "states_mean_request", "state_mean_request", "best5_request", "worst5_request",
    "global_mean_request", "diff_from_mean_request", "state_diff_from_mean_request",
    "mean_by_category_request", "state_mean_by_category_request" }

\* a handler that registers the name of the engine function as the job type
EndpointKindByEngineName(e) ==
  CASE e = "states_mean_request" -> "state_means_and_sort"
    [] e = "state_mean_request" -> "mean_for_state"
    [] e = "best5_request" -> "best5_for_question"
    [] e = "worst5_request" -> "worst5_for_question"
    [] e = "global_mean_request" -> "global_mean_for_question"
    [] e = "diff_from_mean_request" -> "diff_from_mean"
    [] e = "state_diff_from_mean_request" -> "state_diff_from_global_mean"
    [] e = "mean_by_category_request" -> "mean_by_category"
    [] e = "state_mean_by_category_request" -> "state_mean_by_category"

\* the 'type' each handler writes into the registry (routes.py lines 163, 190,
\* 217, 244, 271, 298, 325, 352, 379)
EndpointKind(e) ==
  CASE e = "states_mean_request" -> "states_mean"
    [] e = "state_mean_request" -> "state_mean"
    [] e = "best5_request" -> "best5"
    [] e = "worst5_request" -> "worst5"
    [] e = "global_mean_request" -> "global_mean"
    [] e = "diff_from_mean_request" -> "diff_from_mean"
    [] e = "state_diff_from_mean_request" -> "state_diff_from_mean"
    [] e = "mean_by_category_request" -> "mean_by_category"
    [] e = "state_mean_by_category_request" -> "state_mean_by_category"

\* request bodies: a question and a state that have rows, and a question that
\* has none with the state left out
Bodies == { Body("Q1", "S1"), Body("Q0", None) }

\* One request through the server: it is posted to any of the nine endpoints,
\* registered and queued, a worker computes and saves its result, partial
\* flush included, while status queries and listings are answered.  The
\* results directory starts empty.
NextRequest ==
  \/ \E e \in Endpoints, d \in Bodies : Submit(1, EndpointKind(e), d)
  \/ \E c \in Clients : IncrementLoad(c)
  \/ \E c \in Clients : IncrementStore(c)
  \/ \E c \in Clients : Register(c)
  \/ \E c \in Clients : AddJobCheck(c)
  \/ \E c \in Clients : AddJobPut(c)
  \/ \E w \in Workers : Dequeue(w)
  \/ \E w \in Workers : IdleTimeout(w)
  \/ \E w \in Workers : SaveOpen(w)
  \/ \E w \in Workers : SaveFlush(w)
  \/ \E w \in Workers : SaveClose(w)
  \/ \E w \in Workers : SaveFails(w)
  \/ \E i \in JobIds : GetResults(i)
  \/ ListJobs

SpecRequest == InitPool /\ [][NextRequest]_vars

\* C25: every registry entry holds one of the nine job types of the
\* dispatch, so the dispatch of every queued item calls an engine function
\* and never leaves the result at None: no job ends without a result file by
\* its type.
C25_UnknownKindUnreachable ==
  /\ \A i \in DOMAIN jobs : jobs[i].type \in Kinds
  /\ \A i \in 1..Len(jobs_queue) :
       LET item == jobs_queue[i]
       IN  item.job_id \in DOMAIN jobs =>
             Dispatch(jobs[item.job_id].type, item.data.question,
                      item.data.state).exc # "unknown"
  /\ \A c \in Clients : EndedUnsaved(c) => EngineResult(c).exc # "unknown"

\* C25, reached: the job of the last of the nine endpoints was dispatched and
\* its result file is complete
C25_Witness ==
  \E c \in Clients :
    /\ client[c].kind = "state_mean_by_category"
    /\ c \in persisted
    /\ get_response(jobs, files, client[c].job_id).status = "done"

\* C26: a registered job that has no result file is absent from the answer
\* of list_jobs, as running and as done, while the status query for its id
\* answers running.
C26_UnsavedJobNotListed ==
  \A i \in DOMAIN jobs :
    i \notin DOMAIN files =>
      /\ i \notin DOMAIN list_jobs(files)
      /\ get_response(jobs, files, i).status = "running"
      /\ resp.op = "list_jobs" => i \notin DOMAIN resp.data
      /\ (resp.op = "get_results" /\ resp.id = i) => resp.status = "running"

\* C26, reached: the listing was answered with no entry while a registered
\* job waits on the queue
C26_Witness ==
  /\ resp.op = "list_jobs"
  /\ resp.data = <<>>
  /\ jobs_queue # <<>>
  /\ \E i \in DOMAIN jobs : i \notin DOMAIN files

\* C27: the save is not atomic for a reader: between the open that creates
\* or truncates the result file and the close that completes it, the status
\* query for the job answers running (nothing written yet) or error (a part
\* written), and the close makes the status done.
C27_ReaderSeesUnfinishedSave ==
  /\ [](\A w \in Workers :
          worker[w].pc = "write" =>
            /\ get_response(jobs, files, worker[w].job_id).status =
                 (IF worker[w].pos = 0 THEN "running" ELSE "error")
            /\ (resp.op = "get_results" /\ resp.id = worker[w].job_id)
                 => resp.status \in {"running", "error"})
  /\ [][\A w \in Workers :
          (worker[w].pc = "write" /\ worker[w].by \in persisted' \ persisted)
            => get_response(jobs', files', worker[w].job_id).status = "done"]_vars

\* C27, reached: a status query was answered with error for the job whose
\* file a worker has written in part and not yet closed
C27_Witness ==
  /\ resp.op = "get_results"
  /\ resp.status = "error"
  /\ resp.reason = "Invalid or corrupt result file"
  /\ \E w \in Workers :
       /\ worker[w].pc = "write"
       /\ worker[w].job_id = resp.id
       /\ worker[w].pos > 0

(* ------------------------- a backlog is drained ------------------------ *)

\* The pool with a backlog: the requests were handled one after the other,
\* request c got job id c, and their work items wait on the queue in that
\* order while every worker is about to call get.
InitDrain ==
  /\ job_counter = NumClients + 1
  /\ \E r \in [Clients -> Requests] :
       /\ jobs = [i \in JobIds |-> [type |-> r[i][1]]]
       /\ jobs_queue = [i \in 1..NumClients |->
                          [job_id |-> i, data |-> r[i][2], by |-> i]]
       /\ client = [c \in Clients |->
                      [pc |-> "done", job_id |-> c, tmp |-> 0, kind |-> r[c][1],
                       data |-> r[c][2], queued |-> TRUE, late |-> FALSE]]
  /\ accept_jobs = TRUE
  /\ files = <<>>
  /\ worker = [w \in Workers |-> IdleWorker]
  /\ sd = [pc |-> "idle", i |-> 1]
  /\ resp = NoResponse
  /\ saves = [i \in JobIds |-> 0]
  /\ persisted = {}
  /\ sd_returned = FALSE
  /\ sd_pending = 0

NextDrain ==
  \/ \E w \in Workers : Dequeue(w)
  \/ \E w \in Workers : IdleTimeout(w)
  \/ \E w \in Workers : SaveOpen(w)
  \/ \E w \in Workers : SaveFlush(w)
  \/ \E w \in Workers : SaveClose(w)
  \/ \E w \in Workers : SaveFails(w)
  \/ ShutdownCall
  \/ ShutdownJoin
  \/ ShutdownReturn
  \/ \E i \in JobIds : GetResults(i)

SpecDrain == InitDrain /\ [][NextDrain]_vars

\* C28: the result files need not be completed in the order of submission.
\* The items leave the queue in that order, so the file of a later job is
\* complete before the file of an earlier one only when the earlier item has
\* left the queue before: another worker holds it, or its job ended without
\* a file.
C28_OvertakingOnlyAfterDequeue ==
  \A c1, c2 \in Clients :
    (c1 < c2 /\ c2 \in persisted /\ c1 \notin persisted) =>
      /\ Dequeued(c1)
      /\ \/ \E w \in Workers : worker[w].by = c1 /\ worker[w].pc \in {"save", "write"}
         \/ EndedUnsaved(c1)

\* C28, reached: the status of the job queued second is done while a worker
\* is still writing the file of the job queued first
C28_Witness ==
  /\ 2 \in persisted
  /\ 1 \notin persisted
  /\ get_response(jobs, files, client[2].job_id).status = "done"
  /\ get_response(jobs, files, client[1].job_id).status # "done"
  /\ \E w \in Workers : worker[w].by = 1 /\ worker[w].pc = "write"

\* C29: no work item is put on the queue while the intake flag is false, and
\* the queue does not grow once a shutdown() call has returned.
C29_NoPutAfterIntakeClosed ==
  [][/\ \A c \in Clients : Puts(c) => accept_jobs
     /\ sd_returned => Len(jobs_queue') <= Len(jobs_queue)]_vars

(* ----------------------- the server without faults --------------------- *)

\* requests whose engine call returns: the mean of one state (a dict of one
\* item) and the means of all states (a dict of two items)
ServedRequests ==
  { <<"state_mean", Body("Q1", "S1")>>,
    <<"states_mean", Body("Q1", None)>> }

\* The intake and the pool when no engine call raises and no write fails.
NextServed ==
  \/ \E c \in Clients, r \in ServedRequests : Submit(c, r[1], r[2])
  \/ \E c \in Clients : IncrementLoad(c)
  \/ \E c \in Clients : IncrementStore(c)
  \/ \E c \in Clients : Register(c)
  \/ \E c \in Clients : AddJobCheck(c)
  \/ \E c \in Clients : AddJobPut(c)
  \/ \E w \in Workers : Dequeue(w)
  \/ \E w \in Workers : IdleTimeout(w)
  \/ \E w \in Workers : SaveOpen(w)
  \/ \E w \in Workers : SaveFlush(w)
  \/ \E w \in Workers : SaveClose(w)

\* one step of the thread of worker w when nothing fails
ServedStep(w) ==
  Dequeue(w) \/ IdleTimeout(w) \/ SaveOpen(w) \/ SaveFlush(w) \/ SaveClose(w)

\* Fair scheduling of the worker threads; no request has to arrive and no
\* handler of a request has to go on.
SpecServedFair ==
  /\ InitPool
  /\ [][NextServed]_vars
  /\ \A w \in Workers : WF_vars(ServedStep(w))

\* the work item of request c waits on the queue while a worker is in run()
QueuedForWorker(c) ==
  /\ \E i \in 1..Len(jobs_queue) : jobs_queue[i].by = c
  /\ \E w \in Workers : ~Terminated(w)

\* C30: when no engine call and no write fails, a job that is queued while a
\* worker is in its loop eventually has its result file written, and the
\* status query for its id eventually answers done.
C30_QueuedJobEventuallyDone ==
  \A c \in Clients :
    /\ QueuedForWorker(c) ~> (c \in persisted)
    /\ QueuedForWorker(c) ~>
         (get_response(jobs, files, client[c].job_id).status = "done")

\* C31: the status of a job is monotone: from a state in which the status
\* query for an id answers done, every step leads to a state in which it
\* answers done with the same value.
C31_DoneStaysDone ==
  [][\A i \in JobIds :
       get_response(jobs, files, i).status = "done" =>
         /\ get_response(jobs', files', i).status = "done"
         /\ get_response(jobs', files', i).data = get_response(jobs, files, i).data]_vars

\* C32: the status query answers done for a job id only when a worker of
\* this run has saved the result of a job with that id: a file that was in
\* the results directory at the start is never given out as a result.
C32_DoneOnlyAfterWorkerWrote ==
  /\ \A i \in JobIds :
       get_response(jobs, files, i).status = "done" =>
         \E c \in persisted : client[c].job_id = i
  /\ (resp.op = "get_results" /\ resp.status = "done") =>
       \E c \in persisted :
         client[c].job_id = resp.id /\ resp.data \in {EngineResult(b).value : b \in Clients}

\* C33: for every registered job id that has an entry in the listing, the
\* listing says done exactly when the status query for the id answers done,
\* whatever the text of the result file.
C33_ListingAgreesWithStatus ==
  \A i \in DOMAIN jobs \cap DOMAIN list_jobs(files) :
    list_jobs(files)[i] = "done" <=> get_response(jobs, files, i).status = "done"

(* ------------------------------ the queries ---------------------------- *)

\* GET /api/num_jobs: routes.py lines 69-80, the answer is the queue's qsize()
NumJobs ==
  /\ resp' = Response("num_jobs", UnknownId, "success", "none", 200,
                      ("num_jobs" :> get_num_jobs(jobs_queue)))
  /\ UNCHANGED << job_counter, jobs, jobs_queue, accept_jobs, files, client, worker,
                  sd, saves, persisted, sd_returned, sd_pending >>

\* One request through the server next to the three queries: the status of
\* a job, the listing and the depth of the queue.
NextQueries ==
  \/ NextRequest
  \/ NumJobs

SpecQueries == InitPool /\ [][NextQueries]_vars

\* C34: the status query, the listing and the queue depth are read-only: a
\* step that answers one of them, with success or with an error, leaves the
\* id counter, the registry, the queue, the intake flag, the worker threads
\* and every result file as they were.
C34_QueriesReadOnly ==
  [][resp'.op \in {"get_results", "list_jobs", "num_jobs"} =>
       UNCHANGED << job_counter, jobs, jobs_queue, accept_jobs, files, worker >>]_vars

\* C34, reached: a status query for an id that is not registered was answered
\* with the 404 error while a job waits on the queue and the registry holds
\* that job alone
C34_Witness ==
  /\ resp.op = "get_results"
  /\ resp.status = "error"
  /\ resp.code = 404
  /\ resp.id \notin DOMAIN jobs
  /\ jobs_queue # <<>>
  /\ DOMAIN jobs # {}

\* C35: the intake flag is monotone.  It is true until shutdown() is called,
\* only the call of shutdown() changes it, and once false it stays false;
\* the steps of shutdown(), of a second call as well, leave the registry, the
\* queue and the result files unchanged, and a second call finds every worker
\* terminated, so that none of its joins waits.
C35_IntakeFlagMonotone ==
  /\ []((sd.pc = "idle" /\ ~sd_returned) => accept_jobs)
  /\ [][~accept_jobs => ~accept_jobs']_vars
  /\ [][accept_jobs' # accept_jobs => (sd.pc = "idle" /\ sd'.pc = "join")]_vars
  /\ [][sd' # sd => UNCHANGED << jobs, jobs_queue, files >>]_vars
  /\ []((sd.pc = "join" /\ sd_returned) => \A w \in Workers : Terminated(w))

\* C35, reached: shutdown() was called a second time, after the first call
\* had returned; the flag is false and the item that a request put on the
\* queue behind the first call is still there
C35_Witness ==
  /\ sd.pc = "join"
  /\ sd_returned
  /\ ~accept_jobs
  /\ jobs_queue # <<>>

(* --------------------------- a pool of one thread ---------------------- *)

\* a pool that starts every one of the NumWorkers threads
PoolOfAll == 1..NumWorkers

\* the threads of the pool when TP_NUM_OF_THREADS is 1
\* (task_runner.py line 46: self.num_threads = int(os.getenv(...)))
PoolOfOne == {1}

\* The backlog drained by a pool of one thread: only the threads of the pool
\* exist and take steps.
NextDrainOne ==
  \/ \E w \in PoolOfOne : Dequeue(w)
  \/ \E w \in PoolOfOne : IdleTimeout(w)
  \/ \E w \in PoolOfOne : SaveOpen(w)
  \/ \E w \in PoolOfOne : SaveFlush(w)
  \/ \E w \in PoolOfOne : SaveClose(w)
  \/ \E w \in PoolOfOne : SaveFails(w)
  \/ \E i \in JobIds : GetResults(i)

SpecDrainOne == InitDrain /\ [][NextDrainOne]_vars

\* C36: with one worker the result files are written in the order in which
\* the jobs were queued: when the worker has taken a later job, every job
\* queued before it is finished, its file complete or its processing ended
\* without a file.
C36_OneWorkerSavesInOrder ==
  \A c1, c2 \in Clients :
    (c1 < c2 /\ (c2 \in persisted \/ \E w \in Workers : worker[w].by = c2)) =>
      (c1 \in persisted \/ EndedUnsaved(c1))

\* C36, reached: the file of the job queued first is complete and the worker
\* is writing the file of the job queued second
C36_Witness ==
  /\ 1 \in persisted
  /\ 2 \notin persisted
  /\ get_response(jobs, files, client[1].job_id).status = "done"
  /\ \E w \in PoolOfOne : worker[w].by = 2 /\ worker[w].pc = "write"

====
